---- MODULE Spec2Model ----
(***************************************************************************)
(* Clipboard history manager (src/src/main.rs): the in-memory store        *)
(* `Clipboard.data`, the persisted file clipboard.json, the JSON and CSV   *)
(* codecs, merge, search, and the interactive session loop of `main`.      *)
(*                                                                         *)
(* Strings are sequences of one-character strings, so that substring       *)
(* containment is computed.  A HashMap is a function; its iteration order  *)
(* is a nondeterministic choice of a permutation of its domain.            *)
(***************************************************************************)
EXTENDS Integers, Sequences, FiniteSets, TLC

\* ------------------------------------------------------------------ bounds
\* records in a CSV file the user supplies
MaxRecs == 3
\* operations chosen at the prompt, over all runs
MaxOps == 2
\* processes launched
MaxRuns == 2

\* The sample strings the inputs are drawn from: history names, keys, values
\* (the clipboard may be empty) and search terms (never empty).
HistNames == {<<"w">>, <<"a", "b">>}
Keys == {<<"k">>, <<"b">>}
Values == {<<>>, <<"a">>}
Terms == {<<"a">>, <<"b">>, <<"k">>, <<"a", "b">>, <<"w">>}

\* ------------------------------------------------------------------ store
\* HashMap<String, HashMap<String, String>>
EmptyMap == [x \in {} |-> x]
Histories == UNION {[ks -> Values] : ks \in SUBSET Keys}
AllStores == UNION {[hs -> Histories] : hs \in SUBSET HistNames}

\* map.insert(k, v)
MapInsert(m, k, v) == [x \in DOMAIN m \cup {k} |-> IF x = k THEN v ELSE m[x]]

\* map.remove(k)
MapRemove(m, k) == [x \in DOMAIN m \ {k} |-> m[x]]

\* data.entry(h).or_insert(HashMap::new())
EntryOrInsert(d, h) == IF h \in DOMAIN d THEN d ELSE MapInsert(d, h, EmptyMap)

\* data.entry(h).or_insert(HashMap::new()).insert(k, v)
SaveEntry(d, h, k, v) ==
    LET e == EntryOrInsert(d, h) IN [e EXCEPT ![h] = MapInsert(e[h], k, v)]

\* a delete that also drops the history once its last key is gone
DeleteEntryPrune(d, h, k) ==
    IF DOMAIN d[h] = {k} THEN MapRemove(d, h) ELSE [d EXCEPT ![h] = MapRemove(d[h], k)]

\* data.get_mut(h).unwrap().remove(k)
DeleteEntry(d, h, k) == [d EXCEPT ![h] = MapRemove(d[h], k)]

NotFound == <<"NotFound">>
\* a lookup of (h, k): the value wrapped in a 1-tuple, or NotFound
GetEntry(d, h, k) ==
    IF h \in DOMAIN d /\ k \in DOMAIN d[h] THEN <<"Found", d[h][k]>> ELSE NotFound

\* the flattened (history, key, value) triples of a store
Triples(d) == UNION {{<<h, k, d[h][k]>> : k \in DOMAIN d[h]} : h \in DOMAIN d}

\* the iteration orders of a HashMap with key set S: every permutation of S
RECURSIVE Orders(_)
Orders(S) ==
    IF S = {} THEN {<<>>}
    ELSE UNION {{<<x>> \o o : o \in Orders(S \ {x})} : x \in S}

\* ------------------------------------------------------------- JSON codec
\* A JSON text is a sequence of tokens <<kind, string>>; kind "s" is a string
\* literal, the other kinds are the punctuation marks.
LB == <<"{", <<>>>>
RB == <<"}", <<>>>>
COLON == <<":", <<>>>>
COMMA == <<",", <<>>>>
StrTok(s) == <<"s", s>>

\* serde_json::to_string_pretty of a HashMap<String, String>, iterated in order o
RECURSIVE InnerMembers(_, _, _)
InnerMembers(m, o, i) ==
    IF i > Len(o) THEN <<>>
    ELSE (IF i > 1 THEN <<COMMA>> ELSE <<>>)
         \o <<StrTok(o[i]), COLON, StrTok(m[o[i]])>>
         \o InnerMembers(m, o, i + 1)

SerializeInner(m, o) == <<LB>> \o InnerMembers(m, o, 1) \o <<RB>>

\* every text to_string_pretty can produce for the inner map m
InnerTexts(m) == {SerializeInner(m, o) : o \in Orders(DOMAIN m)}

\* the texts of the members named o[i..] of the outer map, in that order
RECURSIVE OuterMembers(_, _, _)
OuterMembers(d, o, i) ==
    IF i > Len(o) THEN {<<>>}
    ELSE {(IF i > 1 THEN <<COMMA>> ELSE <<>>) \o <<StrTok(o[i]), COLON>> \o t \o rest :
              t \in InnerTexts(d[o[i]]), rest \in OuterMembers(d, o, i + 1)}

\* a serializer that leaves out the histories that have no entry
ToJsonSkipEmpty(d) ==
    LET full == {h \in DOMAIN d : DOMAIN d[h] # {}}
    IN UNION {{<<LB>> \o t \o <<RB>> : t \in OuterMembers(d, o, 1)} : o \in Orders(full)}

\* every text serde_json::to_string_pretty(&self.data) can produce
ToJson(d) ==
    UNION {{<<LB>> \o t \o <<RB>> : t \in OuterMembers(d, o, 1)} : o \in Orders(DOMAIN d)}

ParseError == [ok |-> FALSE, data |-> EmptyMap]

\* serde_json::from_str::<HashMap<String, HashMap<String, String>>>: a scan of
\* the text t from token i in parser state st; d is the outer map built so
\* far, h the member being read, m its inner map, k the key being read.  Map
\* entries are inserted as they are read, so a repeated key keeps the last.
RECURSIVE ParseFrom(_, _, _, _, _, _, _)
ParseFrom(t, i, st, d, h, m, k) ==
    IF i > Len(t) THEN (IF st = "end" THEN [ok |-> TRUE, data |-> d] ELSE ParseError)
    ELSE LET kind == t[i][1]
             str == t[i][2]
         IN CASE st = "start" /\ kind = "{" -> ParseFrom(t, i + 1, "outer0", d, h, m, k)
              [] st = "outer0" /\ kind = "}" -> ParseFrom(t, i + 1, "end", d, h, m, k)
              [] st \in {"outer0", "outerKey"} /\ kind = "s" ->
                     ParseFrom(t, i + 1, "colonO", d, str, m, k)
              [] st = "colonO" /\ kind = ":" -> ParseFrom(t, i + 1, "innerOpen", d, h, m, k)
              [] st = "innerOpen" /\ kind = "{" ->
                     ParseFrom(t, i + 1, "inner0", d, h, EmptyMap, k)
              [] st \in {"inner0", "innerNext"} /\ kind = "}" ->
                     ParseFrom(t, i + 1, "outerNext", MapInsert(d, h, m), h, m, k)
              [] st \in {"inner0", "innerKey"} /\ kind = "s" ->
                     ParseFrom(t, i + 1, "colonI", d, h, m, str)
              [] st = "colonI" /\ kind = ":" -> ParseFrom(t, i + 1, "value", d, h, m, k)
              [] st = "value" /\ kind = "s" ->
                     ParseFrom(t, i + 1, "innerNext", d, h, MapInsert(m, k, str), k)
              [] st = "innerNext" /\ kind = "," -> ParseFrom(t, i + 1, "innerKey", d, h, m, k)
              [] st = "outerNext" /\ kind = "," -> ParseFrom(t, i + 1, "outerKey", d, h, m, k)
              [] st = "outerNext" /\ kind = "}" -> ParseFrom(t, i + 1, "end", d, h, m, k)
              [] OTHER -> ParseError

FromJson(t) == ParseFrom(t, 1, "start", EmptyMap, <<>>, EmptyMap, <<>>)

\* -------------------------------------------------------------- CSV codec
\* A CSV text is a sequence of characters; "," ends a field and "\n" ends a
\* record.  The sample strings hold no delimiter, quote or line break, so the
\* writer never quotes a field of a three-field record.
RECURSIVE JoinFields(_, _)
JoinFields(rec, i) ==
    IF i > Len(rec) THEN <<"\n">>
    ELSE (IF i > 1 THEN <<",">> ELSE <<>>) \o rec[i] \o JoinFields(rec, i + 1)

\* csv::Writer::serialize of each record in turn: a sequence (array) of strings
\* is written as one record and never causes a header row to be written
RECURSIVE WriteCsv(_, _)
WriteCsv(recs, i) ==
    IF i > Len(recs) THEN <<>> ELSE JoinFields(recs[i], 1) \o WriteCsv(recs, i + 1)

\* the records export's nested loops visit, for the histories o[i..] in that
\* order and every iteration order of each inner map
RECURSIVE ExportRecords(_, _, _)
ExportRecords(d, o, i) ==
    IF i > Len(o) THEN {<<>>}
    ELSE {[j \in 1..Len(ko) |-> <<o[i], ko[j], d[o[i]][ko[j]]>>] \o rest :
              ko \in Orders(DOMAIN d[o[i]]), rest \in ExportRecords(d, o, i + 1)}

\* every CSV text the CSV branch of export can write for the store d
ExportCsv(d) ==
    UNION {{WriteCsv(recs, 1) : recs \in ExportRecords(d, o, 1)} : o \in Orders(DOMAIN d)}

\* the csv reader's record splitter: the records of text t from character i
\* on; rec holds the finished fields of the current record, fld the field
\* being read, open whether the current line holds any character.  A line with
\* no character at all is skipped.
RECURSIVE SplitCsv(_, _, _, _, _)
SplitCsv(t, i, rec, fld, open) ==
    IF i > Len(t) THEN (IF open THEN <<Append(rec, fld)>> ELSE <<>>)
    ELSE IF t[i] = "\n"
         THEN (IF open THEN <<Append(rec, fld)>> ELSE <<>>)
              \o SplitCsv(t, i + 1, <<>>, <<>>, FALSE)
         ELSE IF t[i] = ","
              THEN SplitCsv(t, i + 1, Append(rec, fld), <<>>, TRUE)
              ELSE SplitCsv(t, i + 1, rec, Append(fld, t[i]), TRUE)

\* csv::Reader::from_reader(file): has_headers is left at its default, true
ReaderHasHeaders == TRUE

\* the rows reader.deserialize() yields: with has_headers the first record
\* of the file is taken as the header row and is not yielded
DataRows(recs) == IF ReaderHasHeaders /\ Len(recs) > 0 THEN Tail(recs) ELSE recs

\* the loop of the CSV branch of import over the rows from row i on, imp
\* being imported_data so far.  The reader is not flexible: a row whose field
\* count differs from the first record's (n) is an error.  Indexing
\* record[2] of a shorter row panics; fields past the third are not read.
RECURSIVE CsvLoop(_, _, _, _)
CsvLoop(rows, i, n, imp) ==
    IF i > Len(rows) THEN [res |-> "ok", imported |-> imp]
    ELSE IF Len(rows[i]) # n THEN [res |-> "CorruptData", imported |-> imp]
         ELSE IF Len(rows[i]) < 3 THEN [res |-> "panic", imported |-> imp]
              ELSE CsvLoop(rows, i + 1, n, SaveEntry(imp, rows[i][1], rows[i][2], rows[i][3]))

\* the CSV branch of import up to the call of merge_data, on the text t
ReadCsv(t) ==
    LET recs == SplitCsv(t, 1, <<>>, <<>>, FALSE)
    IN CsvLoop(DataRows(recs), 1, IF Len(recs) > 0 THEN Len(recs[1]) ELSE 0, EmptyMap)

\* ------------------------------------------------------------------ merge
\* the inner loop of merge_data: insert the entries of map under history h
RECURSIVE MergeInner(_, _, _, _, _)
MergeInner(d, h, map, ko, j) ==
    IF j > Len(ko) THEN d
    ELSE MergeInner([d EXCEPT ![h] = MapInsert(d[h], ko[j], map[ko[j]])], h, map, ko, j + 1)

\* merge_data: for each imported history, entry(..).or_insert(..), then the
\* inner loop.  The imported maps have distinct keys, so the iteration order
\* (here an arbitrary fixed one) does not change the result.
RECURSIVE MergeFrom(_, _, _, _)
MergeFrom(d, imp, o, i) ==
    IF i > Len(o) THEN d
    ELSE LET h == o[i]
             ko == CHOOSE q \in Orders(DOMAIN imp[h]) : TRUE
         IN MergeFrom(MergeInner(EntryOrInsert(d, h), h, imp[h], ko, 1), imp, o, i + 1)

MergeData(d, imp) == MergeFrom(d, imp, CHOOSE q \in Orders(DOMAIN imp) : TRUE, 1)

\* ----------------------------------------------------------------- search
\* x.contains(term): term occurs in x as a contiguous run of characters
Contains(x, term) ==
    \E i \in 1..(Len(x) - Len(term) + 1) : SubSeq(x, i, i + Len(term) - 1) = term

\* the condition of the inner loop of search for one entry of history h
EntryMatches(h, k, v, term) ==
    Contains(h, term) \/ Contains(k, term) \/ Contains(v, term)

\* matched_data: the loop over an inner map inserts inner_map.clone() under
\* the history name at the first entry that matches, and breaks
SearchData(d, term) ==
    LET hit == {h \in DOMAIN d : \E k \in DOMAIN d[h] : EntryMatches(h, k, d[h][k], term)}
    IN [h \in hit |-> d[h]]

\* ---------------------------------------------------------------- import
Formats == {"CSV", "JSON", "Exit"}
NoFile == [kind |-> "none", text |-> <<>>]
KindOf(fmt) == IF fmt = "CSV" THEN "csv" ELSE "json"

\* an import that merges the rows read before the row that fails
ImportResultEager(d, fmt, file) ==
    IF fmt = "Exit" THEN [res |-> "cancelled", data |-> d]
    ELSE IF file.kind = "none" THEN [res |-> "IoFailure", data |-> d]
    ELSE IF fmt = "JSON"
         THEN LET p == FromJson(file.text)
              IN IF p.ok THEN [res |-> "ok", data |-> MergeData(d, p.data)]
                 ELSE [res |-> "CorruptData", data |-> d]
         ELSE LET c == ReadCsv(file.text)
              IN [res |-> c.res, data |-> MergeData(d, c.imported)]

\* import: the outcome and the store it leaves, for the chosen format and the
\* file named by the user.  merge_data runs only after the whole file was read.
ImportResult(d, fmt, file) ==
    IF fmt = "Exit" THEN [res |-> "cancelled", data |-> d]
    ELSE IF file.kind = "none" THEN [res |-> "IoFailure", data |-> d]
    ELSE IF fmt = "JSON"
         THEN LET p == FromJson(file.text)
              IN IF p.ok THEN [res |-> "ok", data |-> MergeData(d, p.data)]
                 ELSE [res |-> "CorruptData", data |-> d]
         ELSE LET c == ReadCsv(file.text)
              IN IF c.res = "ok" THEN [res |-> "ok", data |-> MergeData(d, c.imported)]
                 ELSE [res |-> c.res, data |-> d]

\* ------------------------------------------------------------ the session
VARIABLES
    pc,       \* "off": no process; "menu": at the action prompt of main's loop;
              \* "write", "write_quit": in save_data between File::create and
              \* the end of write_all, called from save/delete or from Quit
    status,   \* how the process ended, once it has: exit0, error, panic, killed
    data,     \* Clipboard.data
    current,  \* Clipboard.current
    disk,     \* clipboard.json: [exists, text]
    xfile,    \* the interchange file named at export/import: [kind, text]
    out,      \* the last operation and its outcome: [op, res, h, k]; for
              \* Launch, h is how the process before ended
    shown,    \* the table the last operation printed
    ops,      \* operations chosen at the prompt so far, over all runs
    runs      \* processes launched

vars == <<pc, status, data, current, disk, xfile, out, shown, ops, runs>>

Default == <<"d", "e", "f", "a", "u", "l", "t">>
NoStr == <<>>
Outcome(op, res, h, k) == [op |-> op, res |-> res, h |-> h, k |-> k]
File(t) == [exists |-> TRUE, text |-> t]
NoDisk == [exists |-> FALSE, text |-> <<>>]

\* Clipboard::new("clipboard.json"), no process running, no file on disk
Init ==
    /\ pc = "off" /\ status = "none"
    /\ data = EmptyMap /\ current = Default
    /\ disk = NoDisk /\ xfile = NoFile
    /\ out = Outcome("none", "ok", NoStr, NoStr)
    /\ shown = EmptyMap /\ ops = 0 /\ runs = 0

\* `?` in main: the error is returned from main and the process ends
Fails(op, res, h, k) ==
    /\ pc' = "off" /\ status' = "error"
    /\ out' = Outcome(op, res, h, k)

\* the operation returned Ok(()) and the loop prompts again
Returns(op, h, k) ==
    /\ pc' = "menu" /\ status' = status
    /\ out' = Outcome(op, "ok", h, k)

AtMenu == pc = "menu" /\ ops < MaxOps /\ ops' = ops + 1 /\ runs' = runs

\* main's choice of the first store: load_data if clipboard.json exists, else
\* Clipboard::new
StartupLoad(file) ==
    IF file.exists THEN FromJson(file.text) ELSE [ok |-> TRUE, data |-> EmptyMap]

\* main before the loop
Launch ==
    /\ pc = "off" /\ runs < MaxRuns
    /\ runs' = runs + 1 /\ ops' = ops /\ current' = Default /\ shown' = EmptyMap
    /\ LET r == StartupLoad(disk)
       IN /\ data' = r.data
          /\ pc' = IF r.ok THEN "menu" ELSE "off"
          /\ status' = IF r.ok THEN "none" ELSE "error"
          /\ out' = Outcome("Launch", IF r.ok THEN "ok" ELSE "CorruptData", <<status>>, NoStr)
    /\ UNCHANGED <<disk, xfile>>

\* save_data up to File::create, which truncates the file; io is whether the
\* file could be created
SaveDataCreate(op, h, k, io, next) ==
    IF io THEN /\ disk' = File(<<>>)
               /\ pc' = next /\ status' = status
               /\ out' = Outcome(op, "saving", h, k)
    ELSE /\ disk' = disk
         /\ Fails(op, "IoFailure", h, k)

\* save: the clipboard cannot be read
SaveNoClipboard(h) ==
    /\ AtMenu /\ h \in HistNames
    /\ Fails("Save", "ClipboardUnavailable", h, NoStr)
    /\ shown' = EmptyMap
    /\ UNCHANGED <<data, current, disk, xfile>>

\* save: the key prompt fails; entry(history_name).or_insert(..) has already run
SaveNoKey(h) ==
    /\ AtMenu /\ h \in HistNames
    /\ data' = EntryOrInsert(data, h)
    /\ Fails("Save", "IoFailure", h, NoStr)
    /\ shown' = EmptyMap
    /\ UNCHANGED <<current, disk, xfile>>

\* save: v is the clipboard's content
Save(h, k, v, io) ==
    /\ AtMenu /\ h \in HistNames /\ k \in Keys /\ v \in Values
    /\ data' = SaveEntry(data, h, k, v)
    /\ SaveDataCreate("Save", h, k, io, "write")
    /\ shown' = EmptyMap
    /\ UNCHANGED <<current, xfile>>

\* load: Select over an empty list of histories yields no index
LoadNoHistory ==
    /\ AtMenu /\ DOMAIN data = {}
    /\ Fails("Load", "InvalidInput", NoStr, NoStr)
    /\ shown' = EmptyMap
    /\ UNCHANGED <<data, current, disk, xfile>>

\* load: the chosen history has no key; self.current is already assigned
LoadNoKey(h) ==
    /\ AtMenu /\ h \in DOMAIN data /\ DOMAIN data[h] = {}
    /\ current' = h
    /\ Fails("Load", "InvalidInput", h, NoStr)
    /\ shown' = EmptyMap
    /\ UNCHANGED <<data, disk, xfile>>

\* load: cb is whether the clipboard can be written
Load(h, k, cb) ==
    /\ AtMenu /\ h \in DOMAIN data /\ k \in DOMAIN data[h]
    /\ current' = h
    /\ IF cb THEN Returns("Load", h, k)
       ELSE Fails("Load", "ClipboardUnavailable", h, k)
    /\ shown' = EmptyMap
    /\ UNCHANGED <<data, disk, xfile>>

\* list: prints every history and entry
List ==
    /\ AtMenu
    /\ shown' = data
    /\ Returns("List", NoStr, NoStr)
    /\ UNCHANGED <<data, current, disk, xfile>>

\* search: the prompt's validator asks again until the term is not empty
Search(term) ==
    /\ AtMenu /\ term \in Terms
    /\ shown' = SearchData(data, term)
    /\ Returns("Search", term, NoStr)
    /\ UNCHANGED <<data, current, disk, xfile>>

\* delete: Select over an empty list of histories yields no index
DeleteNoHistory ==
    /\ AtMenu /\ DOMAIN data = {}
    /\ Fails("Delete", "InvalidInput", NoStr, NoStr)
    /\ shown' = EmptyMap
    /\ UNCHANGED <<data, current, disk, xfile>>

\* delete: the chosen history has no key
DeleteNoKey(h) ==
    /\ AtMenu /\ h \in DOMAIN data /\ DOMAIN data[h] = {}
    /\ Fails("Delete", "InvalidInput", h, NoStr)
    /\ shown' = EmptyMap
    /\ UNCHANGED <<data, current, disk, xfile>>

\* delete: remove the chosen key, then save_data
Delete(h, k, io) ==
    /\ AtMenu /\ h \in DOMAIN data /\ k \in DOMAIN data[h]
    /\ data' = DeleteEntry(data, h, k)
    /\ SaveDataCreate("Delete", h, k, io, "write")
    /\ shown' = EmptyMap
    /\ UNCHANGED <<current, xfile>>

\* export: io is whether the named file could be created
Export(fmt, io) ==
    /\ AtMenu /\ fmt \in Formats
    /\ IF fmt = "Exit" THEN xfile' = xfile /\ Returns("Export", NoStr, NoStr)
       ELSE IF ~io THEN xfile' = xfile /\ Fails("Export", "IoFailure", NoStr, NoStr)
       ELSE /\ \E t \in (IF fmt = "CSV" THEN ExportCsv(data) ELSE ToJson(data)) :
                   xfile' = [kind |-> KindOf(fmt), text |-> t]
            /\ Returns("Export", NoStr, NoStr)
    /\ shown' = EmptyMap
    /\ UNCHANGED <<data, current, disk>>

\* import: the user names the interchange file and picks the format it is in
Import(fmt) ==
    /\ AtMenu /\ fmt \in Formats
    /\ fmt = "Exit" \/ xfile.kind \in {"none", KindOf(fmt)}
    /\ LET r == ImportResult(data, fmt, xfile)
       IN /\ data' = r.data
          /\ pc' = IF r.res \in {"ok", "cancelled"} THEN "menu" ELSE "off"
          /\ status' = IF r.res \in {"ok", "cancelled"} THEN status
                       ELSE IF r.res = "panic" THEN "panic" ELSE "error"
          /\ out' = Outcome("Import", r.res, NoStr, NoStr)
    /\ shown' = EmptyMap
    /\ UNCHANGED <<current, disk, xfile>>

\* Quit: save_data, then process::exit(0)
Quit(io) ==
    /\ pc = "menu" /\ UNCHANGED <<ops, runs>>
    /\ SaveDataCreate("Quit", NoStr, NoStr, io, "write_quit")
    /\ shown' = EmptyMap
    /\ UNCHANGED <<data, current, xfile>>

\* save_data: write_all completes, and the caller goes on
SaveDataWrite ==
    /\ pc \in {"write", "write_quit"}
    /\ \E t \in ToJson(data) : disk' = File(t)
    /\ pc' = IF pc = "write" THEN "menu" ELSE "off"
    /\ status' = IF pc = "write" THEN status ELSE "exit0"
    /\ out' = [out EXCEPT !.res = "ok"]
    /\ UNCHANGED <<data, current, xfile, shown, ops, runs>>

\* the process is stopped from outside, at the prompt
KillAtMenu ==
    /\ pc = "menu"
    /\ pc' = "off" /\ status' = "killed"
    /\ UNCHANGED <<data, current, disk, xfile, out, shown, ops, runs>>

\* what the file may hold when write_all of the text t has not finished: a
\* proper prefix of t, of which the shortest and the longest are kept
PartialWrites(t) == {SubSeq(t, 1, n) : n \in {0, Len(t) - 1}}

\* the process is stopped inside write_all
KillInWrite ==
    /\ pc \in {"write", "write_quit"}
    /\ \E t \in ToJson(data) : \E part \in PartialWrites(t) : disk' = File(part)
    /\ pc' = "off" /\ status' = "killed"
    /\ UNCHANGED <<data, current, xfile, out, shown, ops, runs>>

\* the user puts a file of their own, one of files, where import will look
\* for it
PlaceFile(files) ==
    /\ pc = "menu" /\ xfile.kind = "none"
    /\ \E f \in files : xfile' = f
    /\ UNCHANGED <<pc, status, data, current, disk, out, shown, ops, runs>>

\* ------------------------------------------------------------ user files
RECURSIVE SeqsUpTo(_, _)
SeqsUpTo(S, n) ==
    IF n = 0 THEN {<<>>}
    ELSE LET shorter == SeqsUpTo(S, n - 1)
         IN shorter \cup {Append(q, x) : q \in {r \in shorter : Len(r) = n - 1}, x \in S}

CsvFile(recs) == [kind |-> "csv", text |-> WriteCsv(recs, 1)]
JsonFile(t) == [kind |-> "json", text |-> t]

\* well-formed rows (of one key; the stores they are merged into hold both
\* keys), one row that is too short and one that is too long
Rec3 == {<<h, <<"k">>, v>> : h \in HistNames, v \in Values}
ShortRec == <<<<"w">>, <<"k">>>>
LongRec == <<<<"w">>, <<"k">>, <<"a">>, <<"a">>>>
CsvRecords == Rec3 \cup {ShortRec, LongRec}

\* a JSON text that ends early
BrokenJson == <<LB, StrTok(<<"w">>), COLON>>

\* the files a user may supply in the import runs
ImportFiles ==
    {CsvFile(recs) : recs \in SeqsUpTo(CsvRecords, MaxRecs)}
    \cup {JsonFile(CHOOSE t \in ToJson(s) : TRUE) : s \in AllStores}
    \cup {JsonFile(BrokenJson)}

\* the CSV files export can write, for every store
ExportedCsvFiles ==
    UNION {{[kind |-> "csv", text |-> t] : t \in ExportCsv(s)} : s \in AllStores}

\* the few files a user may supply in a session: CSV files that import two
\* histories, that panic and that are rejected, a JSON document with an empty
\* history and a broken one
SessionRow == <<<<"w">>, <<"k">>, <<"a">>>>
OtherRow == <<<<"a", "b">>, <<"k">>, <<>>>>
SessionStore == EntryOrInsert(SaveEntry(EmptyMap, <<"w">>, <<"k">>, <<"a">>), <<"a", "b">>)
SessionFiles ==
    {CsvFile(<<SessionRow, SessionRow, OtherRow>>), CsvFile(<<ShortRec, ShortRec>>),
     CsvFile(<<SessionRow, ShortRec>>),
     JsonFile(CHOOSE t \in ToJson(SessionStore) : TRUE),
     JsonFile(BrokenJson)}

\* ------------------------------------------------------- specifications
Next ==
    \/ Launch
    \/ \E h \in HistNames : SaveNoClipboard(h) \/ SaveNoKey(h)
    \/ \E h \in HistNames, k \in Keys, v \in Values, io \in BOOLEAN : Save(h, k, v, io)
    \/ LoadNoHistory
    \/ \E h \in HistNames : LoadNoKey(h)
    \/ \E h \in HistNames, k \in Keys, cb \in BOOLEAN : Load(h, k, cb)
    \/ List
    \/ \E term \in Terms : Search(term)
    \/ DeleteNoHistory
    \/ \E h \in HistNames : DeleteNoKey(h)
    \/ \E h \in HistNames, k \in Keys, io \in BOOLEAN : Delete(h, k, io)
    \/ \E fmt \in Formats, io \in BOOLEAN : Export(fmt, io)
    \/ \E fmt \in Formats : Import(fmt)
    \/ \E io \in BOOLEAN : Quit(io)
    \/ SaveDataWrite
    \/ KillAtMenu
    \/ KillInWrite
    \/ PlaceFile(SessionFiles)

Spec == Init /\ [][Next]_vars

\* A run that loaded one of stores, saved by an earlier run, and has one
\* operation of the budget left; files are the files the user may have put
\* where import looks.
LoadedRun(stores, files) ==
    /\ pc = "menu" /\ status = "none"
    /\ data \in stores /\ current = Default
    /\ disk = File(CHOOSE t \in ToJson(data) : TRUE) /\ xfile \in files
    /\ out = Outcome("Launch", "ok", <<"exit0">>, NoStr)
    /\ shown = EmptyMap /\ ops = MaxOps - 1 /\ runs = 1

\* the stores with at most one entry in each history
ImportStores == {s \in AllStores : \A h \in DOMAIN s : Cardinality(DOMAIN s[h]) <= 1}

\* The import of a file the user supplies.
InitImport == LoadedRun(ImportStores, {NoFile})

NextImport ==
    \/ PlaceFile(ImportFiles)
    \/ \E fmt \in {"CSV", "JSON"} : Import(fmt)

SpecImport == InitImport /\ [][NextImport]_vars

\* The import, into a new store, of a CSV file that export wrote.
InitCsv == LoadedRun({EmptyMap}, ExportedCsvFiles)

NextCsv == Import("CSV")

SpecCsv == InitCsv /\ [][NextCsv]_vars

\* A search.
InitSearch == LoadedRun(AllStores, {NoFile})

NextSearch == \E term \in Terms : Search(term)

SpecSearch == InitSearch /\ [][NextSearch]_vars

\* ----------------------------------------------------------------- claims
\* the step is an operation op chosen at the prompt
Chose(op) == pc = "menu" /\ ops' = ops + 1 /\ out'.op = op

\* the store as the persisted file holds it
OnDisk == IF disk.exists THEN FromJson(disk.text) ELSE ParseError

\* C1: at each return to the menu after a completed Save, Delete or Import,
\* the persisted file holds exactly the in-memory store: a run started from
\* it would begin with that store.
C1_PersistedAfterMutation ==
    (pc = "menu" /\ out.op \in {"Save", "Delete", "Import"} /\ out.res = "ok")
        => StartupLoad(disk) = [ok |-> TRUE, data |-> data]

\* C2: importing a CSV export of a store s into an empty store succeeds and
\* yields exactly the (history, key, value) triples of s.
C2_CsvRoundTrip ==
    [][\A s \in AllStores :
          (Chose("Import") /\ data = EmptyMap /\ xfile.kind = "csv"
               /\ xfile.text \in ExportCsv(s))
              => (out'.res = "ok" /\ Triples(data') = Triples(s))]_vars

\* C3: a search for a term returns, per history, exactly the entries for which
\* the term occurs in the history name, the key or the value.
C3_SearchFiltersEntries ==
    out.op = "Search" =>
        \A h \in HistNames, k \in Keys :
            GetEntry(shown, h, k) =
                IF /\ h \in DOMAIN data /\ k \in DOMAIN data[h]
                   /\ EntryMatches(h, k, data[h][k], out.h)
                THEN <<"Found", data[h][k]>> ELSE NotFound

\* save_entry applied for each record of recs from record i on, in order
RECURSIVE ApplyRecords(_, _, _)
ApplyRecords(d, recs, i) ==
    IF i > Len(recs) THEN d
    ELSE ApplyRecords(SaveEntry(d, recs[i][1], recs[i][2], recs[i][3]), recs, i + 1)

\* the records of the interchange file, when it is a CSV file
FileRecords == SplitCsv(xfile.text, 1, <<>>, <<>>, FALSE)
WellFormed(recs) == \A i \in 1..Len(recs) : Len(recs[i]) = 3

\* C4: the import of a file of three-field records leaves the store that
\* save_entry, applied for each record of the file in file order, leaves.
C4_MergeInRecordOrder ==
    [][(Chose("Import") /\ xfile.kind = "csv" /\ WellFormed(FileRecords))
          => (out'.res = "ok" /\ data' = ApplyRecords(data, FileRecords, 1))]_vars

\* C5: a run started after a Quit holds the store the Quit saved, empty
\* histories included.
C5_PersistRoundTrip ==
    [][(pc = "off" /\ status = "exit0" /\ runs' = runs + 1)
          => (pc' = "menu" /\ data' = data)]_vars

C5_Witness ==
    /\ pc = "menu" /\ out.op = "Launch" /\ out.h = <<"exit0">>
    /\ \E h \in DOMAIN data : DOMAIN data[h] = {}
    /\ \E h \in DOMAIN data : DOMAIN data[h] # {}

\* C6: the import of a CSV file with a row that has not exactly three fields
\* ends in CorruptData.
C6_MalformedRowRejected ==
    [][(Chose("Import") /\ xfile.kind = "csv" /\ ~WellFormed(FileRecords))
          => out'.res = "CorruptData"]_vars

\* C7: an operation that fails returns to the menu, and a run ends only by
\* Quit (or by being stopped from outside).
C7_FailureReturnsToMenu ==
    [][/\ (pc = "menu" /\ ops' = ops + 1 /\ out'.res \notin {"ok", "saving", "cancelled"})
            => pc' = "menu"
       /\ (pc # "off" /\ pc' = "off") => status' \in {"exit0", "killed"}]_vars

\* C8: a delete of (h, k) leaves a store in which (h, k) is not found, with
\* the same history names and every other entry as before, and the file
\* written by the delete holds that store.
C8_DeleteRemovesOneEntry ==
    [][/\ (Chose("Delete") /\ out'.res = "saving") =>
            /\ GetEntry(data', out'.h, out'.k) = NotFound
            /\ DOMAIN data' = DOMAIN data
            /\ \A h \in HistNames, k \in Keys :
                   <<h, k>> # <<out'.h, out'.k>> => GetEntry(data', h, k) = GetEntry(data, h, k)
       /\ (pc = "write" /\ out.op = "Delete" /\ pc' = "menu") =>
            /\ data' = data
            /\ OnDisk' = [ok |-> TRUE, data |-> data]
            /\ GetEntry(OnDisk'.data, out.h, out.k) = NotFound]_vars

C8_Witness ==
    /\ pc = "menu" /\ out.op = "Delete" /\ out.res = "ok"
    /\ DOMAIN data[out.h] = {}
    /\ Triples(data) # {}

\* C9: every step that changes the persisted file leaves in it the complete
\* document of the store, and a run started after the process was stopped
\* loads a store.
C9_AtomicPersist ==
    [][/\ disk' # disk => OnDisk' = [ok |-> TRUE, data |-> data']
       /\ (pc = "off" /\ status = "killed" /\ runs' = runs + 1) => pc' = "menu"]_vars

\* C10: an import that fails leaves the in-memory store and the persisted
\* file as they were.
C10_FailedImportChangesNothing ==
    [][(Chose("Import") /\ out'.res \notin {"ok", "cancelled"})
          => (data' = data /\ disk' = disk)]_vars

\* a CSV import failed at a row that follows a well-formed row, and the entry
\* of that row is not in the store
C10_Witness ==
    /\ out.op = "Import" /\ out.res = "CorruptData" /\ xfile.kind = "csv"
    /\ Len(FileRecords) >= 3 /\ Len(FileRecords[2]) = 3
    /\ GetEntry(data, FileRecords[2][1], FileRecords[2][2]) = NotFound
    /\ OnDisk = [ok |-> TRUE, data |-> data]

====
